---- MODULE Spec2Model ----
(***************************************************************************)
(* Model of the Better Stack uptime client (src/client/client.go): the     *)
(* monitor operations of BetterstackClient, the page traversal of          *)
(* ListAllMonitors and the page-count parsing of Pagination.GetLastPage.   *)
(*                                                                         *)
(* Go strings that the code parses are sequences of one-character strings; *)
(* strings the code only compares or passes on are TLA+ strings.           *)
(***************************************************************************)
EXTENDS Integers, Sequences, FiniteSets, TLC

\* ------------------------------------------------------------------ bounds

\* Largest number of entity wrappers the server puts on one page.
MaxItems == 2

\* Largest page index the server writes into a "last" link.
MaxPage == 3

\* Largest length of a query value in the links handed to GetLastPage directly.
MaxValLen == 2

\* ------------------------------------------------------------ Go constants

\* const Blanc = ""
Blanc == ""

\* params.Add("per_page", "250")
PerPage == 250

StatusOK == 200
StatusCreated == 201
StatusNoContent == 204

\* ------------------------------------------------------------------ errors

\* A Go error value: the message fmt.Errorf formats and the cause it wraps.
\* The nil error is NoErr.
Err(msg, cause) == [msg |-> msg, cause |-> cause]

NoErr == Err("nil", "nil")

\* ----------------------------------------------------- strings as sequences

Digits == <<"0", "1", "2", "3", "4", "5", "6", "7", "8", "9">>

IsDigit(c) == \E k \in 1..10 : Digits[k] = c

DigitVal(c) == (CHOOSE k \in 1..10 : Digits[k] = c) - 1

\* A control byte (0x7f), which url.Parse rejects anywhere in the URL.
CTL == "DEL"

PageKey == <<"p", "a", "g", "e">>

RECURSIVE NatToStr(_)
NatToStr(n) ==
    IF n < 10 THEN <<Digits[n + 1]>>
    ELSE NatToStr(n \div 10) \o <<Digits[(n % 10) + 1]>>

\* fmt.Sprintf("%d", n)
IntToStr(n) == IF n < 0 THEN <<"-">> \o NatToStr(0 - n) ELSE NatToStr(n)

\* Index of the first occurrence of character c in s, or 0.
IndexOf(s, c) ==
    IF \E i \in 1..Len(s) : s[i] = c
    THEN CHOOSE i \in 1..Len(s) : s[i] = c /\ \A j \in 1..(i - 1) : s[j] # c
    ELSE 0

\* strings.Split / strings.Cut loop of url.parseQuery: the segments between
\* separators, in order.
RECURSIVE Split(_, _)
Split(s, sep) ==
    LET i == IndexOf(s, sep)
    IN IF i = 0 THEN <<s>>
       ELSE <<SubSeq(s, 1, i - 1)>> \o Split(SubSeq(s, i + 1, Len(s)), sep)

\* strconv.Atoi, mutated: the sign is dropped.
AtoiNoSign(s) ==
    LET signed == Len(s) > 0 /\ s[1] \in {"+", "-"}
        body == IF signed THEN Tail(s) ELSE s
        Value[k \in 0..Len(body)] ==
            IF k = 0 THEN 0 ELSE Value[k - 1] * 10 + DigitVal(body[k])
    IN IF Len(body) = 0 \/ \E i \in 1..Len(body) : ~IsDigit(body[i])
       THEN [val |-> 0, ok |-> FALSE]
       ELSE [val |-> Value[Len(body)], ok |-> TRUE]

\* strconv.Atoi: an optional sign, then one or more decimal digits. The
\* range error of values beyond the int width lies outside MaxValLen digits.
Atoi(s) ==
    LET signed == Len(s) > 0 /\ s[1] \in {"+", "-"}
        body == IF signed THEN Tail(s) ELSE s
        Value[k \in 0..Len(body)] ==
            IF k = 0 THEN 0 ELSE Value[k - 1] * 10 + DigitVal(body[k])
    IN IF Len(body) = 0 \/ \E i \in 1..Len(body) : ~IsDigit(body[i])
       THEN [val |-> 0, ok |-> FALSE]
       ELSE [val |-> IF signed /\ s[1] = "-" THEN 0 - Value[Len(body)]
                     ELSE Value[Len(body)],
             ok |-> TRUE]

\* url.Parse: fails on a control byte; otherwise RawQuery is what follows the
\* first "?" (empty when there is none). Parse("") succeeds with an empty URL.
URLParse(rawURL) ==
    IF \E i \in 1..Len(rawURL) : rawURL[i] = CTL
    THEN [ok |-> FALSE, RawQuery |-> <<>>]
    ELSE LET q == IndexOf(rawURL, "?")
         IN [ok |-> TRUE,
             RawQuery |-> IF q = 0 THEN <<>>
                          ELSE SubSeq(rawURL, q + 1, Len(rawURL))]

\* url.QueryUnescape on the characters of the model: "+" decodes to a space.
QueryUnescape(s) == [i \in 1..Len(s) |-> IF s[i] = "+" THEN " " ELSE s[i]]

\* URL.Query (url.ParseQuery): the key/value pairs of the query, in order;
\* empty segments are skipped, a segment without "=" has an empty value.
ParseQuery(query) ==
    LET segs == Split(query, "&")
        Pair(seg) ==
            LET e == IndexOf(seg, "=")
            IN IF e = 0 THEN [key |-> QueryUnescape(seg), value |-> <<>>]
               ELSE [key |-> QueryUnescape(SubSeq(seg, 1, e - 1)),
                     value |-> QueryUnescape(SubSeq(seg, e + 1, Len(seg)))]
        Pairs[k \in 0..Len(segs)] ==
            IF k = 0 THEN <<>>
            ELSE IF segs[k] = <<>> THEN Pairs[k - 1]
            ELSE Append(Pairs[k - 1], Pair(segs[k]))
    IN Pairs[Len(segs)]

\* url.Values.Get: the first value of the key, or "".
QueryGet(pairs, key) ==
    IF \E i \in 1..Len(pairs) : pairs[i].key = key
    THEN pairs[CHOOSE i \in 1..Len(pairs) :
                 /\ pairs[i].key = key
                 /\ \A j \in 1..(i - 1) : pairs[j].key # key].value
    ELSE <<>>

\* Pagination.GetLastPage.
GetLastPage(last) ==
    LET parsedURL == URLParse(last)
        pageStr == QueryGet(ParseQuery(parsedURL.RawQuery), PageKey)
        page == Atoi(pageStr)
    IN IF ~parsedURL.ok
       THEN [page |-> 0, err |-> Err("failed to parse URL", "invalid control character in URL")]
       ELSE IF pageStr = <<>>
       THEN [page |-> 0, err |-> Err("'page' parameter not found in URL", "nil")]
       ELSE IF ~page.ok
       THEN [page |-> 0, err |-> Err("invalid 'page' value", "strconv.Atoi: invalid syntax")]
       ELSE [page |-> page.val, err |-> NoErr]


\* ------------------------------------------------------------ wire values

\* Monitor: the attributes of a monitor; ID is the field the code copies.
Monitor(id) == [ID |-> id]

\* EntityWrapper[Monitor]: the wrapper id and the decoded attributes, whose ID
\* is whatever the payload's attributes carried under "id" ("" when absent).
EntityWrapper(id, wireID) == [ID |-> id, Attributes |-> Monitor(wireID)]

\* The wrappers a server payload holds: one whose attributes carry no id and
\* one whose attributes carry an id of their own.
Entities == {EntityWrapper("a", ""), EntityWrapper("b", "z")}

\* The Data of a list payload: up to MaxItems wrappers, in server order.
Pages == UNION {[1..k -> Entities] : k \in 0..MaxItems}

\* The path of a pagination link.
Base == <<"/", "m">>

\* "key=value"
Param(key, value) == key \o <<"=">> \o value

\* A URL from its path and its query parameters, in order.
RECURSIVE JoinParams(_)
JoinParams(params) ==
    IF Len(params) = 0 THEN <<>>
    ELSE IF Len(params) = 1 THEN Param(params[1].key, params[1].value)
    ELSE Param(params[1].key, params[1].value) \o <<"&">> \o JoinParams(Tail(params))

Render(path, params) ==
    IF Len(params) = 0 THEN path ELSE path \o <<"?">> \o JoinParams(params)

PageLink(n) == Render(Base, <<[key |-> PageKey, value |-> IntToStr(n)]>>)

NoPageLink == Base

BadPageLink == Render(Base, <<[key |-> PageKey, value |-> <<"x">>]>>)

\* The "last" links a list payload carries: empty, without a page parameter,
\* with a non-numeric page, and with page = n for n up to MaxPage.
ServerLinks ==
    {<<>>, NoPageLink, BadPageLink} \cup {PageLink(n) : n \in (0 - 1)..MaxPage}

\* The Errors field of an envelope: empty (absent) or a payload.
ErrorPayloads == {"", "record not found"}

\* ListWrapper[Monitor] / MonitorsResponse; of Pagination only Last is read.
ZeroList == [Data |-> <<>>, Errors |-> "", Last |-> <<>>]

\* ResponseWrapper[Monitor] / MonitorResponse.
ZeroSingle == [Data |-> EntityWrapper("", ""), Errors |-> ""]

\* What http.DefaultClient.Do and the body hand back for one exchange:
\* doErr (the exchange itself failed), the status code, whether the body is
\* well-formed JSON, and the envelope it decodes to.
Outcome(doErr, status, wellFormed, body) ==
    [doErr |-> doErr, StatusCode |-> status, wellFormed |-> wellFormed, body |-> body]

\* The exchanges of a list call. ListMonitors never reads the status code; a
\* payload with "errors" carries no data; a failed request may come with 500.
ListOutcomes ==
    {Outcome(TRUE, 0, FALSE, ZeroList)}
    \cup {Outcome(FALSE, s, FALSE, ZeroList) : s \in {StatusOK, 500}}
    \cup {Outcome(FALSE, s, TRUE, [Data |-> <<>>, Errors |-> "record not found", Last |-> l]) :
            s \in {StatusOK, 500}, l \in ServerLinks}
    \cup {Outcome(FALSE, StatusOK, TRUE, [Data |-> d, Errors |-> "", Last |-> l]) :
            d \in Pages, l \in ServerLinks}

SingleOutcomes ==
    {Outcome(TRUE, 0, FALSE, ZeroSingle)}
    \cup {Outcome(FALSE, s, FALSE, ZeroSingle) :
            s \in {StatusOK, StatusCreated, StatusNoContent, 404}}
    \cup {Outcome(FALSE, s, TRUE, [Data |-> d, Errors |-> e]) :
            s \in {StatusOK, StatusCreated, StatusNoContent, 404},
            d \in Entities, e \in ErrorPayloads}

\* http.Response.Status of the codes above.
StatusText(s) ==
    CASE s = StatusOK -> "200 OK"
      [] s = StatusCreated -> "201 Created"
      [] s = StatusNoContent -> "204 No Content"
      [] OTHER -> "404 Not Found"

\* --------------------------------------------------------- call arguments

FilterTypes == {Blanc, "url", "pronounceable_name", "status"}

FilterValues == {Blanc, "example.com"}

PageArgs == {0 - 1, 0, 1, 2}

IDArgs == {"a", "b"}

\* The monitor handed to create/update: one json.Marshal encodes, and one
\* it cannot (MonitorGroupID is `any`).
MonitorArgs == {"monitor", "unserializable"}

\* Inputs of a direct GetLastPage call: a path with or without a control
\* byte, and one or two query parameters with values over ValChars.
ValChars == {"-", "+", "0", "1", "7", "x"}

Vals == UNION {[1..k -> ValChars] : k \in 0..MaxValLen}

Keys == {PageKey, <<"q">>}

SecondVals == {<<"7">>, <<"x">>}

Paths == {<<>>, Base, <<CTL>> \o Base}

ParamLists ==
    {<<>>}
    \cup {<<[key |-> k, value |-> v]>> : k \in Keys, v \in Vals}
    \cup {<<[key |-> k, value |-> v], [key |-> k2, value |-> v2]>> :
            k \in Keys, v \in Vals, k2 \in Keys, v2 \in SecondVals}

ZeroArgs ==
    [page |-> 0, filterType |-> Blanc, filterValue |-> Blanc, id |-> Blanc,
     monitor |-> Blanc, path |-> <<>>, params |-> <<>>, last |-> <<>>]

ZeroRet ==
    [monitors |-> <<>>, list |-> ZeroList, single |-> ZeroSingle, page |-> 0,
     err |-> NoErr]


\* ------------------------------------------------------------------ state

VARIABLES
    op,          \* the operation last called ("none" before the first call)
    pc,          \* "idle": no call is running and ret is the last return;
                 \* "send": a list call is about to issue a page request;
                 \* "wait": a request is in flight
    args,        \* the arguments of the call
    requests,    \* the HTTP requests issued by the call, in order
    exchanges,   \* the exchanges completed for the call, in order
    result,      \* ListAllMonitors: var result []Monitor
    i,           \* the page passed to ListMonitors (ListAllMonitors: page, then i)
    lastPage,    \* ListAllMonitors: var lastPage
    firstLast,   \* ListAllMonitors: monitorResponses.Pagination.Last
    status,      \* the StatusCode the call read from its response (0: none)
    ret          \* what the call returned

vars == <<op, pc, args, requests, exchanges, result, i, lastPage, firstLast,
          status, ret>>

\* A request: method, endpoint, the id in the path, the query parameters, and
\* how many exchanges of the call had completed when it was issued.
Request(method, endpoint, id, params, completed) ==
    [Method |-> method, endpoint |-> endpoint, id |-> id, params |-> params,
     completed |-> completed]

NoParams == [per_page |-> 0, page |-> 0, filters |-> {}]

\* One completed exchange: how it ended and, when it ended well, its Data.
Exchange(kind, data) == [kind |-> kind, Data |-> data]

\* ----------------------------------------------------------- ListMonitors

\* ListMonitors up to http.NewRequest: the page clamp, the query parameters
\* and the filter switch. err is the validation failure, if any.
ListMonitorsPrepare(page, filterType, filterValue) ==
    LET p == IF page < 1 THEN 1 ELSE page
        filtered == filterType # Blanc /\ filterValue # Blanc
    IN IF filtered /\ filterType \notin {"url", "pronounceable_name"}
       THEN [err |-> Err("invalid filter type", filterType), params |-> NoParams]
       ELSE [err |-> NoErr,
             params |-> [per_page |-> PerPage, page |-> p,
                         filters |-> IF filtered
                                     THEN {[name |-> filterType, value |-> filterValue]}
                                     ELSE {}]]

\* ListMonitors from http.DefaultClient.Do on: the transport failure, the
\* decode failure, the Errors check. The status code is not read.
ListMonitorsFinish(o) ==
    IF o.doErr
    THEN [result |-> ZeroList, err |-> Err("failed to execute request", "transport error")]
    ELSE IF ~o.wellFormed
    THEN [result |-> ZeroList, err |-> Err("failed to unmarshal response", "malformed JSON")]
    ELSE IF o.body.Errors # ""
    THEN [result |-> o.body, err |-> Err("failed to list monitors", o.body.Errors)]
    ELSE [result |-> o.body, err |-> NoErr]

\* How a list exchange ended, for the log of exchanges.
ListKind(o) ==
    IF o.doErr THEN "transport"
    ELSE IF ~o.wellFormed THEN "decode"
    ELSE IF o.body.Errors # "" THEN "api"
    ELSE "ok"

ListExchange(o) == Exchange(ListKind(o), IF ListKind(o) = "ok" THEN o.body.Data ELSE <<>>)

\* mon.Attributes.ID = mon.ID; the value appended is mon.Attributes.
CopyID(mon) == [mon.Attributes EXCEPT !.ID = mon.ID]

\* The range loop, mutated: each monitor is prepended.
PrependPage(acc, data) ==
    LET Acc[k \in 0..Len(data)] ==
            IF k = 0 THEN acc ELSE <<CopyID(data[k])>> \o Acc[k - 1]
    IN Acc[Len(data)]

\* for _, mon := range Data { mon.Attributes.ID = mon.ID; result = append(result, mon.Attributes) }
AppendPage(acc, data) ==
    LET Acc[k \in 0..Len(data)] ==
            IF k = 0 THEN acc ELSE Append(Acc[k - 1], CopyID(data[k]))
    IN Acc[Len(data)]

\* if page == lastPage { return result, nil }
SinglePage(page, last) == page = last

\* i <= lastPage, mutated: one page too many.
LoopContinuesOneMore(k, last) == k <= last + 1

\* for i := page; i <= lastPage; i++
LoopContinues(k, last) == k <= last

\* i++, mutated: the loop index does not advance.
NextIndexStuck(k) == k

\* page++ / i++
NextIndex(k) == k + 1

\* return result, tempErr, mutated: on a failure the accumulated monitors are dropped.
DropPartial(acc, err) ==
    [ZeroRet EXCEPT !.monitors = IF err = NoErr THEN acc ELSE <<>>, !.err = err]

\* return result, tempErr / return result, monsErr / return result, nil
ReturnMonitors(acc, err) == [ZeroRet EXCEPT !.monitors = acc, !.err = err]

\* if monsErr != nil, mutated: the failure of the first page is ignored.
FirstPageFailedNever(err) == FALSE

\* if monsErr != nil { return result, monsErr }
FirstPageFailed(err) == err # NoErr

Init ==
    /\ op = "none"
    /\ pc = "idle"
    /\ args = ZeroArgs
    /\ requests = <<>>
    /\ exchanges = <<>>
    /\ result = <<>>
    /\ i = 0
    /\ lastPage = 0
    /\ firstLast = <<>>
    /\ status = 0
    /\ ret = ZeroRet

\* No call is running and the last return value has been taken.
Ready == op = "none" /\ pc = "idle"

\* A call starts on the client as constructed: the client holds nothing but
\* its headers, so no call sees anything of an earlier one.
Begin(o, a, page) ==
    /\ op' = o
    /\ args' = a
    /\ i' = page
    /\ result' = <<>>
    /\ lastPage' = 0
    /\ firstLast' = <<>>
    /\ status' = 0
    /\ exchanges' = <<>>

CallListMonitors ==
    /\ Ready
    /\ \E page \in PageArgs, ft \in FilterTypes, fv \in FilterValues :
        /\ Begin("ListMonitors",
                 [ZeroArgs EXCEPT !.page = page, !.filterType = ft, !.filterValue = fv],
                 page)
        /\ pc' = "send"
        /\ requests' = <<>>
        /\ ret' = ZeroRet

CallListAllMonitors ==
    /\ Ready
    /\ Begin("ListAllMonitors", ZeroArgs, 1)
    /\ pc' = "send"
    /\ requests' = <<>>
    /\ ret' = ZeroRet

CallFindMonitor ==
    /\ Ready
    /\ \E kind \in FilterTypes, val \in FilterValues :
        /\ Begin("FindMonitor",
                 [ZeroArgs EXCEPT !.filterType = kind, !.filterValue = val], 1)
        /\ pc' = "send"
        /\ requests' = <<>>
        /\ ret' = ZeroRet

\* ListMonitors, lines 54-82: the request is built and issued, or the filter
\* switch fails and the caller (ListMonitors itself, FindMonitor) returns.
ListMonitorsSend ==
    /\ pc = "send"
    /\ LET prep == ListMonitorsPrepare(i, args.filterType, args.filterValue)
       IN IF prep.err # NoErr
          THEN /\ pc' = "idle"
               /\ requests' = requests
               /\ ret' = IF op = "ListMonitors"
                         THEN [ZeroRet EXCEPT !.list = ZeroList, !.err = prep.err]
                         ELSE ReturnMonitors(result, prep.err)
          ELSE /\ pc' = "wait"
               /\ requests' = Append(requests,
                      Request("GET", "monitors", Blanc, prep.params, Len(exchanges)))
               /\ ret' = ret
    /\ UNCHANGED <<op, args, exchanges, result, i, lastPage, firstLast, status>>

\* ListMonitors returns to its caller.
ListMonitorsReturn ==
    /\ op = "ListMonitors"
    /\ pc = "wait"
    /\ \E o \in ListOutcomes :
          LET r == ListMonitorsFinish(o)
          IN /\ exchanges' = Append(exchanges, ListExchange(o))
             /\ ret' = [ZeroRet EXCEPT !.list = r.result, !.err = r.err]
    /\ pc' = "idle"
    /\ UNCHANGED <<op, args, requests, result, i, lastPage, firstLast, status>>

\* FindMonitor after its ListMonitors call.
FindMonitorReturn ==
    /\ op = "FindMonitor"
    /\ pc = "wait"
    /\ \E o \in ListOutcomes :
          LET r == ListMonitorsFinish(o)
          IN /\ exchanges' = Append(exchanges, ListExchange(o))
             /\ ret' = IF r.err # NoErr
                       THEN ReturnMonitors(<<>>, r.err)
                       ELSE ReturnMonitors(AppendPage(<<>>, r.result.Data), NoErr)
    /\ pc' = "idle"
    /\ UNCHANGED <<op, args, requests, result, i, lastPage, firstLast, status>>

\* ListAllMonitors, lines 105-124 and the first test of the loop: the first
\* page comes back.
ListAllFirstPage ==
    /\ op = "ListAllMonitors"
    /\ pc = "wait"
    /\ i = 1
    /\ \E o \in ListOutcomes :
          LET r == ListMonitorsFinish(o)
              lp == GetLastPage(r.result.Last)
              acc == AppendPage(result, r.result.Data)
          IN /\ exchanges' = Append(exchanges, ListExchange(o))
             /\ firstLast' = r.result.Last
             /\ IF FirstPageFailed(r.err)
                THEN /\ ret' = ReturnMonitors(result, r.err)
                     /\ pc' = "idle"
                     /\ UNCHANGED <<result, i, lastPage>>
                ELSE IF lp.err # NoErr
                THEN /\ ret' = ReturnMonitors(result, lp.err)
                     /\ pc' = "idle"
                     /\ UNCHANGED <<result, i, lastPage>>
                ELSE IF SinglePage(i, lp.page)
                THEN /\ ret' = ReturnMonitors(acc, NoErr)
                     /\ pc' = "idle"
                     /\ result' = acc
                     /\ lastPage' = lp.page
                     /\ i' = i
                ELSE /\ result' = acc
                     /\ lastPage' = lp.page
                     /\ i' = NextIndex(i)
                     /\ IF LoopContinues(NextIndex(i), lp.page)
                        THEN pc' = "send" /\ ret' = ret
                        ELSE pc' = "idle" /\ ret' = ReturnMonitors(acc, NoErr)
    /\ UNCHANGED <<op, args, requests, status>>

\* ListAllMonitors, lines 126-137: a later page comes back. Its pagination
\* links, whatever they are, are not read.
ListAllNextPage ==
    /\ op = "ListAllMonitors"
    /\ pc = "wait"
    /\ i > 1
    /\ \E o \in ListOutcomes :
          LET r == ListMonitorsFinish(o)
              acc == AppendPage(result, r.result.Data)
          IN /\ exchanges' = Append(exchanges, ListExchange(o))
             /\ IF r.err # NoErr
                THEN /\ ret' = ReturnMonitors(result, r.err)
                     /\ pc' = "idle"
                     /\ UNCHANGED <<result, i>>
                ELSE /\ result' = acc
                     /\ i' = NextIndex(i)
                     /\ IF LoopContinues(NextIndex(i), lastPage)
                        THEN pc' = "send" /\ ret' = ret
                        ELSE pc' = "idle" /\ ret' = ReturnMonitors(acc, NoErr)
    /\ UNCHANGED <<op, args, requests, lastPage, firstLast, status>>


\* ------------------------------------------------- single-monitor operations

\* How a single-monitor exchange ended, the status check left aside.
SingleExchange(o) ==
    IF o.doErr THEN Exchange("transport", <<>>)
    ELSE IF ~o.wellFormed THEN Exchange("decode", <<>>)
    ELSE IF o.body.Errors # "" THEN Exchange("api", <<>>)
    ELSE Exchange("ok", <<o.body.Data>>)

\* json.NewDecoder(...).Decode(&result), the Errors check and
\* result.Data.Attributes.ID = result.Data.ID, shared by create, get, update.
DecodeSingle(o, what) ==
    IF ~o.wellFormed
    THEN [result |-> ZeroSingle, err |-> Err("failed to unmarshal response", "malformed JSON")]
    ELSE IF o.body.Errors # ""
    THEN [result |-> o.body, err |-> Err(what, o.body.Errors)]
    ELSE [result |-> [o.body EXCEPT !.Data.Attributes = CopyID(o.body.Data)],
          err |-> NoErr]

\* CreateMonitor, lines 175-191. A transport failure and a status other than
\* 201 take the same branch, which formats monsRespErr (nil for a status).
CreateMonitorFinish(o) ==
    IF o.doErr \/ o.StatusCode # StatusCreated
    THEN [result |-> ZeroSingle,
          err |-> Err("failed to execute request",
                      IF o.doErr THEN "transport error" ELSE "<nil>")]
    ELSE DecodeSingle(o, "failed to list monitors")

\* GetMonitor, lines 205-221. The status code is not read.
GetMonitorFinish(o) ==
    IF o.doErr
    THEN [result |-> ZeroSingle, err |-> Err("failed to execute request", "transport error")]
    ELSE DecodeSingle(o, "failed to get monitor")

\* UpdateMonitor, lines 241-260.
UpdateMonitorFinish(o) ==
    IF o.doErr
    THEN [result |-> ZeroSingle, err |-> Err("failed to execute request", "transport error")]
    ELSE IF o.StatusCode # StatusOK
    THEN [result |-> ZeroSingle,
          err |-> Err("failed to execute request", StatusText(o.StatusCode))]
    ELSE DecodeSingle(o, "failed to update monitor")

\* DeleteMonitor, lines 274-279.
DeleteMonitorFinish(o) ==
    IF o.doErr \/ o.StatusCode # StatusNoContent
    THEN [result |-> ZeroSingle,
          err |-> Err("failed to execute request",
                      IF o.doErr THEN "transport error" ELSE "<nil>")]
    ELSE [result |-> ZeroSingle, err |-> NoErr]

\* json.Marshal(monitor), http.NewRequest and the header, up to Do.
SendSingle(o, method, id, monitor, hasBody) ==
    /\ Begin(o, [ZeroArgs EXCEPT !.id = id, !.monitor = monitor], 0)
    /\ IF hasBody /\ monitor = "unserializable"
       THEN /\ pc' = "idle"
            /\ requests' = <<>>
            /\ ret' = [ZeroRet EXCEPT !.err = Err("json: unsupported type", "nil")]
       ELSE /\ pc' = "wait"
            /\ requests' = <<Request(method, IF id = Blanc THEN "monitors" ELSE "monitor",
                                     id, NoParams, 0)>>
            /\ ret' = ZeroRet

\* The response of a single-monitor call comes back and the call returns.
\* readsStatus: whether the call reads StatusCode when the exchange succeeded.
ReturnSingle(o, r, readsStatus) ==
    /\ pc' = "idle"
    /\ exchanges' = Append(exchanges, SingleExchange(o))
    /\ status' = IF readsStatus /\ ~o.doErr THEN o.StatusCode ELSE 0
    /\ ret' = [ZeroRet EXCEPT !.single = r.result, !.err = r.err]
    /\ UNCHANGED <<op, args, requests, result, i, lastPage, firstLast>>

CallCreateMonitor ==
    /\ Ready
    /\ \E m \in MonitorArgs : SendSingle("CreateMonitor", "POST", Blanc, m, TRUE)

CreateMonitorReturn ==
    /\ op = "CreateMonitor"
    /\ pc = "wait"
    /\ \E o \in SingleOutcomes : ReturnSingle(o, CreateMonitorFinish(o), TRUE)

CallGetMonitor ==
    /\ Ready
    /\ \E id \in IDArgs : SendSingle("GetMonitor", "GET", id, Blanc, FALSE)

GetMonitorReturn ==
    /\ op = "GetMonitor"
    /\ pc = "wait"
    /\ \E o \in SingleOutcomes : ReturnSingle(o, GetMonitorFinish(o), FALSE)

CallUpdateMonitor ==
    /\ Ready
    /\ \E id \in IDArgs, m \in MonitorArgs : SendSingle("UpdateMonitor", "PATCH", id, m, TRUE)

UpdateMonitorReturn ==
    /\ op = "UpdateMonitor"
    /\ pc = "wait"
    /\ \E o \in SingleOutcomes : ReturnSingle(o, UpdateMonitorFinish(o), TRUE)

CallDeleteMonitor ==
    /\ Ready
    /\ \E id \in IDArgs : SendSingle("DeleteMonitor", "DELETE", id, Blanc, FALSE)

DeleteMonitorReturn ==
    /\ op = "DeleteMonitor"
    /\ pc = "wait"
    /\ \E o \in SingleOutcomes : ReturnSingle(o, DeleteMonitorFinish(o), TRUE)

\* Pagination.GetLastPage called on a link of its own.
CallGetLastPage ==
    /\ Ready
    /\ \E path \in Paths, params \in ParamLists :
        LET last == Render(path, params)
            r == GetLastPage(last)
        IN /\ Begin("GetLastPage",
                    [ZeroArgs EXCEPT !.path = path, !.params = params, !.last = last], 0)
           /\ pc' = "idle"
           /\ requests' = <<>>
           /\ ret' = [ZeroRet EXCEPT !.page = r.page, !.err = r.err]

\* The caller has taken the return value; the client is ready for its next
\* call (it holds no state of its own).
Discard ==
    /\ op # "none"
    /\ pc = "idle"
    /\ op' = "none"
    /\ args' = ZeroArgs
    /\ requests' = <<>>
    /\ exchanges' = <<>>
    /\ result' = <<>>
    /\ i' = 0
    /\ lastPage' = 0
    /\ firstLast' = <<>>
    /\ status' = 0
    /\ ret' = ZeroRet
    /\ pc' = "idle"

\* ----------------------------------------------------------- specification

\* The steps of a running call.
Step ==
    \/ ListMonitorsSend
    \/ ListMonitorsReturn
    \/ FindMonitorReturn
    \/ ListAllFirstPage
    \/ ListAllNextPage
    \/ CreateMonitorReturn
    \/ GetMonitorReturn
    \/ UpdateMonitorReturn
    \/ DeleteMonitorReturn

Call ==
    \/ CallListMonitors
    \/ CallListAllMonitors
    \/ CallFindMonitor
    \/ CallCreateMonitor
    \/ CallGetMonitor
    \/ CallUpdateMonitor
    \/ CallDeleteMonitor
    \/ CallGetLastPage

Next == Call \/ Step \/ Discard

Spec == Init /\ [][Next]_vars

\* Section 5 of the specification: every HTTP exchange completes or fails, and
\* the code between two exchanges runs to its next request or return.
FairSpec == Spec /\ WF_vars(Step)


\* ----------------------------------------------------------------- claims

\* The call o has returned and its return value is at hand.
Returned(o) == op = o /\ pc = "idle"

Max(a, b) == IF a >= b THEN a ELSE b

\* The monitors of the first n exchanges as a caller expects them: every
\* wrapper of every page, page after page, each as its attributes with the
\* wrapper's id.
RECURSIVE Expected(_, _)
Expected(exs, n) ==
    IF n = 0 THEN <<>>
    ELSE Expected(exs, n - 1)
         \o [k \in 1..Len(exs[n].Data) |-> Monitor(exs[n].Data[k].ID)]

\* The exchanges 1..n all ended well.
AllOK(n) == \A k \in 1..n : exchanges[k].kind = "ok"

\* The message ListMonitors gives a failed exchange of each kind.
ListFailure(kind) ==
    CASE kind = "transport" -> "failed to execute request"
      [] kind = "decode" -> "failed to unmarshal response"
      [] OTHER -> "failed to list monitors"

\* C1: when every page fetch succeeds and the first page's "last" link gives
\* N >= 1 pages, ListAllMonitors returns, with no error, the items of pages
\* 1..N in page order and in the server's order within a page, none dropped,
\* reordered or deduplicated.
C1_Concatenation ==
    \A n \in 1..MaxPage :
        (/\ Returned("ListAllMonitors")
         /\ firstLast = PageLink(n)
         /\ AllOK(Len(exchanges)))
        => /\ ret.err = NoErr
           /\ Len(exchanges) = n
           /\ ret.monitors = Expected(exchanges, n)

\* Three pages of two items each, with a repeated item, came back as six.
C1_Witness ==
    /\ Returned("ListAllMonitors")
    /\ firstLast = PageLink(3)
    /\ Len(exchanges) = 3
    /\ AllOK(3)
    /\ \A k \in 1..3 : Len(exchanges[k].Data) = 2
    /\ exchanges[1].Data[1] # exchanges[1].Data[2]
    /\ exchanges[2].Data[1] = exchanges[2].Data[2]
    /\ Len(ret.monitors) = 6

\* C2: when page k >= 2 is the first page whose fetch fails, ListAllMonitors
\* returns a non-nil error together with exactly the items of pages 1..k-1,
\* and requests no page after k.
C2_PartialResult ==
    (/\ op = "ListAllMonitors"
     /\ \E k \in 2..Len(exchanges) : exchanges[k].kind # "ok")
    => LET k == Len(exchanges)
       IN /\ AllOK(k - 1)
          /\ pc = "idle"
          /\ Len(requests) = k
          /\ ret.err # NoErr
          /\ ret.err.msg = ListFailure(exchanges[k].kind)
          /\ ret.monitors = Expected(exchanges, k - 1)

\* Page 2 of 3 failed and the two items of page 1 came back with the error.
C2_Witness ==
    /\ Returned("ListAllMonitors")
    /\ firstLast = PageLink(3)
    /\ Len(exchanges) = 2
    /\ exchanges[2].kind = "transport"
    /\ Len(exchanges[1].Data) = 2
    /\ Len(ret.monitors) = 2
    /\ ret.err # NoErr

\* C3: an empty "last" link on the first page means one page:
\* ListAllMonitors returns the items of page 1 with no error after a single
\* request.
C3_EmptyLastLink ==
    (/\ Returned("ListAllMonitors")
     /\ Len(exchanges) >= 1
     /\ exchanges[1].kind = "ok"
     /\ firstLast = <<>>)
    => /\ ret.err = NoErr
       /\ ret.monitors = Expected(exchanges, 1)
       /\ Len(requests) = 1

\* C4: a ListMonitors call with filter kind "url" or "pronounceable_name"
\* issues a request with exactly one filter parameter, the one the kind
\* names; with any other kind it fails validation and issues no request;
\* both whatever the filter value is, the empty one included.
C4_FilterKinds ==
    (op = "ListMonitors" /\ (pc = "wait" \/ pc = "idle"))
    => /\ args.filterType \in {"url", "pronounceable_name"}
          => /\ Len(requests) = 1
             /\ {f.name : f \in requests[1].params.filters} = {args.filterType}
             /\ Cardinality(requests[1].params.filters) = 1
       /\ args.filterType \notin {Blanc, "url", "pronounceable_name"}
          => /\ pc = "idle"
             /\ requests = <<>>
             /\ ret.err.msg = "invalid filter type"

\* The status each call expects.
ExpectedStatus(o) ==
    CASE o = "CreateMonitor" -> StatusCreated
      [] o = "UpdateMonitor" -> StatusOK
      [] OTHER -> StatusNoContent

\* A "request execution" failure: the message of a failed exchange, with no
\* status in it.
ExecutionFailure(err) ==
    /\ err.msg = "failed to execute request"
    /\ err.cause \notin {StatusText(s) : s \in {StatusOK, StatusCreated, StatusNoContent, 404}}

\* C5: a create, update or delete whose exchange completes with another
\* status than the expected one (201, 200, 204) returns a failure, and that
\* failure is not the "request execution" failure of an exchange that failed.
C5_StatusFailure ==
    \A o \in {"CreateMonitor", "UpdateMonitor", "DeleteMonitor"} :
        (/\ Returned(o)
         /\ Len(exchanges) = 1
         /\ exchanges[1].kind # "transport"
         /\ status # ExpectedStatus(o))
        => /\ ret.err # NoErr
           /\ ~ExecutionFailure(ret.err)

\* C6: when the fetch of page 1 fails, ListAllMonitors returns that error at
\* once, with an empty result and no further request.
C6_FirstPageFailure ==
    (/\ op = "ListAllMonitors"
     /\ Len(exchanges) >= 1
     /\ exchanges[1].kind # "ok")
    => /\ pc = "idle"
       /\ Len(exchanges) = 1
       /\ Len(requests) = 1
       /\ ret.monitors = <<>>
       /\ ret.err # NoErr
       /\ ret.err.msg = ListFailure(exchanges[1].kind)
       /\ ret.err.cause # "nil"

\* Page 1 came back with an "errors" payload.
C6_Witness ==
    /\ Returned("ListAllMonitors")
    /\ Len(exchanges) = 1
    /\ exchanges[1].kind = "api"
    /\ firstLast = PageLink(2)
    /\ ret.err.msg = "failed to list monitors"
    /\ ret.monitors = <<>>

\* C7: ListAllMonitors requests page j as its j-th request, each request
\* after every earlier exchange has completed; a fully successful run over
\* N >= 1 pages issues exactly N requests, for pages 1..N.
C7_SequentialRequests ==
    op = "ListAllMonitors"
    => /\ \A j \in 1..Len(requests) :
             /\ requests[j].params.page = j
             /\ requests[j].completed = j - 1
             /\ requests[j].params.per_page = PerPage
             /\ requests[j].params.filters = {}
       /\ Len(requests) - Len(exchanges) = (IF pc = "wait" THEN 1 ELSE 0)
       /\ \A n \in 1..MaxPage :
             (pc = "idle" /\ firstLast = PageLink(n) /\ AllOK(Len(exchanges)))
             => Len(requests) = n

\* A successful run over three pages: three requests, the last for page 3.
C7_Witness ==
    /\ Returned("ListAllMonitors")
    /\ firstLast = PageLink(3)
    /\ AllOK(Len(exchanges))
    /\ Len(requests) = 3
    /\ requests[3].params.page = 3
    /\ ret.err = NoErr

\* The value of the first "page" parameter of a parameter list, if any.
HasPage(params) == \E k \in 1..Len(params) : params[k].key = PageKey

FirstPage(params) ==
    params[CHOOSE k \in 1..Len(params) :
             /\ params[k].key = PageKey
             /\ \A j \in 1..(k - 1) : params[j].key # PageKey].value

\* A decimal integer: an optional minus sign and one or more digits.
IsInteger(v) ==
    /\ Len(v) >= 1
    /\ LET body == IF v[1] = "-" THEN Tail(v) ELSE v
       IN Len(body) >= 1 /\ \A k \in 1..Len(body) : IsDigit(body[k])

\* The decimal integer as fmt writes it: no leading zero, no "-0".
IsCanonical(v) ==
    /\ IsInteger(v)
    /\ LET body == IF v[1] = "-" THEN Tail(v) ELSE v
       IN /\ (Len(body) > 1 => body[1] # "0")
          /\ (v[1] = "-" => body # <<"0">>)

\* C8: for a non-empty "last" link that is a URL, GetLastPage yields n when
\* the link's page parameter is the decimal integer n (the page it yields,
\* written in decimal, is the parameter's value), and a failure when
\* the page parameter is absent or not an integer; ListAllMonitors returns
\* that failure instead of assuming one page.
C8_PageCount ==
    /\ (Returned("GetLastPage") /\ args.last # <<>> /\ args.path # <<CTL>> \o Base)
       => /\ (HasPage(args.params) /\ IsCanonical(FirstPage(args.params)))
             => (ret.err = NoErr /\ IntToStr(ret.page) = FirstPage(args.params))
          /\ (~HasPage(args.params) \/ ~IsInteger(FirstPage(args.params)))
             => ret.err # NoErr
    /\ (/\ Returned("ListAllMonitors")
        /\ Len(exchanges) >= 1
        /\ exchanges[1].kind = "ok"
        /\ firstLast \in {NoPageLink, BadPageLink})
       => /\ ret.err # NoErr
          /\ ret.err.msg = (IF firstLast = NoPageLink
                            THEN "'page' parameter not found in URL"
                            ELSE "invalid 'page' value")
          /\ ret.monitors = <<>>
          /\ Len(requests) = 1

\* A link with page=-7 before another page parameter yields -7.
C8_Witness ==
    /\ Returned("GetLastPage")
    /\ args.path = Base
    /\ Len(args.params) = 2
    /\ args.params[1] = [key |-> PageKey, value |-> <<"-", "7">>]
    /\ ret.page = 0 - 7
    /\ ret.err = NoErr

\* The monitors a successful call hands back, each with the wrapper it was
\* decoded from.
HandedBack ==
    CASE op = "ListMonitors" ->
           {<<ret.list.Data[k].Attributes, ret.list.Data[k]>> : k \in 1..Len(ret.list.Data)}
      [] op \in {"ListAllMonitors", "FindMonitor"} ->
           LET wrappers == Expected(exchanges, Len(exchanges))
           IN IF Len(wrappers) # Len(ret.monitors) THEN {<<Monitor("?"), Monitor("!")>>}
              ELSE {<<ret.monitors[k], wrappers[k]>> : k \in 1..Len(wrappers)}
      [] op \in {"GetMonitor", "CreateMonitor", "UpdateMonitor"} ->
           IF Len(exchanges) = 1 THEN {<<ret.single.Data.Attributes, ret.single.Data>>}
           ELSE {}
      [] OTHER -> {}

\* C9: after a successful ListMonitors, ListAllMonitors, FindMonitor,
\* GetMonitor, CreateMonitor or UpdateMonitor, every monitor handed back has
\* the id of the wrapper it was decoded from as its attributes' ID.
C9_IDCopied ==
    (pc = "idle" /\ ret.err = NoErr)
    => \A pair \in HandedBack : pair[1].ID = pair[2].ID

\* The number the first page's "last" link carries, when it carries one.
CarriesPage(n) == firstLast = PageLink(n)

\* The safety half of C10: the request bound and the case L <= 0.
C10_Bound ==
    op = "ListAllMonitors"
    => /\ \A n \in (0 - 1)..MaxPage :
             CarriesPage(n) => Len(requests) <= Max(1, n)
       /\ (\A n \in (0 - 1)..MaxPage : ~CarriesPage(n)) => Len(requests) <= 1
       /\ \A n \in (0 - 1)..0 :
             (CarriesPage(n) /\ exchanges[1].kind = "ok")
             => /\ pc = "idle"
                /\ ret.err = NoErr
                /\ ret.monitors = Expected(exchanges, 1)
                /\ Len(requests) = 1

\* C10: ListAllMonitors terminates, and it issues at most max(1, L)
\* requests, L being the number in the "last" link of the first page only:
\* the links of later pages change nothing, and for L <= 0 the call returns
\* the items of page 1 with no error after one request.
C10_Termination ==
    /\ []C10_Bound
    /\ (op = "ListAllMonitors" /\ pc # "idle") ~> Returned("ListAllMonitors")

\* The first page said page=-1: its two items came back after one request.
C10_Witness ==
    /\ Returned("ListAllMonitors")
    /\ firstLast = PageLink(0 - 1)
    /\ Len(requests) = 1
    /\ Len(ret.monitors) = 2
    /\ ret.err = NoErr

====
